---- MODULE Spec2Model ----
(***************************************************************************)
(* Session orchestration of tools/ai_dev_tool.py:                          *)
(* X16DevTool.run_emulator_with_capture (runSession) as a state machine,   *)
(* one action per statement group of the method, together with the         *)
(* emulator child process, which runs concurrently with it.                *)
(***************************************************************************)
EXTENDS Integers, Sequences, FiniteSets, TLC

\* ------------------------------------------------------------------ bounds
\* Largest requested duration (seconds) the model draws: 0..MaxDuration.
MaxDuration == 11
\* Longest time (seconds) one screencapture call takes in the model.
MaxCaptureTime == 1
\* Number of external interrupts (SIGINT) delivered during one run.
MaxInterrupts == 1
\* the longest duration of the runs checked for termination
MaxBriefDuration == 3

\* ------------------------------------------------------- program constants
\* screenshot_times, ai_dev_tool.py:158
screenshot_times == <<1, 3, 5, 8, 10>>

\* Python's None
None == "None"
\* self.session_id, ai_dev_tool.py:26
SessionId == "session_1"
\* emulator_process.pid of the one child this run spawns
EmuPid == "pid_1"
\* str(gif_path), ai_dev_tool.py:111-116
GifPath == "recording_session_1.gif"
\* the text line 181 stores when the drain times out
DrainSentinel == "Emulator still running (timeout)"
\* str(e) of the exception Popen raises (e.g. FileNotFoundError: x16emu)
SpawnFailureMsg == "spawn failed: x16emu"
\* str(e) of an exception communicate(timeout=2) raises other than TimeoutExpired
DrainFailureMsg == "drain failed"
\* the texts an emulator may write to its stdout / stderr
Texts == {"boot ok", "error: bad opcode"}
Durations == 0..MaxDuration

VARIABLES
    pc,            \* position of the orchestrator in run_emulator_with_capture
    duration,      \* the duration argument
    session_data,  \* the dict built at lines 86-98
    idx,           \* 1-based position of the for loop of line 160 (i + 1)
    elapsed,       \* seconds since the capture schedule began
    emu,           \* emulator child: "none", "running", "exited", or "orphaned"
                   \* (exited, a descendant still holding its output pipes)
    emuOut,        \* <<stdout, stderr>> text of the emulator
    gifExists,     \* the recording file exists on disk
    signals,       \* signals delivered to the emulator, in order
    calls,         \* number of invocations of each external operation
    captureLog,    \* one entry per screencapture invocation
    sessionFile,   \* content of logs_dir/session_<id>.json
    interrupts,    \* KeyboardInterrupts delivered so far
    exc,           \* exception that left the method, or None
    \* X16DevTool.build_project and run_full_diagnostic
    dpc,           \* position in run_full_diagnostic, "idle" outside of it
    build_outcome, \* what the make invocation did
    build_log,     \* the dict built at lines 40-46
    buildFile,     \* content of logs_dir/build_<id>.json
    analysisFile,  \* content of logs_dir/analysis_<id>.json
    files,         \* what the file system says about the screenshot files
    diag_result,   \* value returned by run_full_diagnostic, or None
    \* X16DevLoop
    lpc,           \* position in run_loop, "idle" outside of it
    iteration,     \* self.iteration
    max_iterations,    \* the argument of run_loop
    emulator_process,  \* self.emulator_process: index in procs, or NoProcess
    procs,         \* the emulators the loop spawned: "running" or "exited"
    lhist,         \* the steps the loop has completed, in order
    lexc,          \* exception run_loop will re-raise after cleanup, or None
    progress_log,  \* EnhancedX16DevLoop.progress_log, the records kept in memory
    logFile,       \* the log file of the loop: development_log.txt or
                   \* enhanced_development_log.json
    others,        \* an x16emu that this loop did not spawn: "none", "running",
                   \* "signalled" (took a SIGTERM of the loop and runs on) or
                   \* "terminated" (exited on a SIGTERM of the loop)
    \* several X16DevTool objects and runs writing below one dev_logs
    clock,         \* time since the first construction, in ticks
    tools,         \* self.session_id of every X16DevTool constructed
    runIds,        \* session id used by every run_emulator_with_capture call
    disk,          \* content of every artifact of dev_logs, by file name
    lastGood,      \* per file name, the value of the latest completed dump
    lastOutcome    \* per file name, how the latest write ended

sessionVars == <<pc, duration, session_data, idx, elapsed, emu, emuOut, gifExists,
                 signals, calls, captureLog, sessionFile>>
diagVars == <<dpc, build_outcome, build_log, buildFile, analysisFile, files,
              diag_result>>
loopVars == <<lpc, iteration, max_iterations, emulator_process, procs, lhist, lexc>>
recVars == <<clock, tools, runIds, disk, lastGood, lastOutcome>>
logVars == <<progress_log, logFile, others>>
toolVars == <<diagVars, loopVars, recVars, logVars>>

vars == <<sessionVars, interrupts, exc, toolVars>>

\* the file does not exist
NoFile == [kind |-> "absent"]
\* open(..., 'w') truncated the file and the dump did not complete
PartialFile == [kind |-> "partial"]
\* json.dump(session_data, f) completed, lines 216-217
JsonFile(sd) == [kind |-> "json", value |-> sd]

\* "drain_failed" and "stop_failed" count the calls of the drain and of the
\* stop command that raised, "announce_failed" the recording checks that did
CallNames == {"spawn", "probe", "activate", "capture", "drain", "stop", "save",
              "drain_failed", "stop_failed", "announce_failed"}

\* build_log as built at lines 40-46
InitialBuildLog ==
    [ command |-> "make GAME=pacman",
      success |-> FALSE,
      output  |-> "",
      errors  |-> "" ]

\* make has not been invoked
NoOutcome == [kind |-> "none"]

\* self.emulator_process = None, development_loop.py line 26
NoProcess == 0

\* no screenshot file has been looked at
NoFiles == [p \in {} |-> [exists |-> FALSE, size |-> 0]]

\* no run_full_diagnostic in progress
DiagIdle ==
    /\ dpc = "idle"
    /\ build_outcome = NoOutcome
    /\ build_log = InitialBuildLog
    /\ buildFile = NoFile
    /\ analysisFile = NoFile
    /\ files = NoFiles
    /\ diag_result = None

\* no run_loop in progress
LoopIdle ==
    /\ lpc = "idle"
    /\ iteration = 0
    /\ max_iterations = 0
    /\ emulator_process = NoProcess
    /\ procs = << >>
    /\ lhist = << >>
    /\ lexc = None
    /\ progress_log = << >>
    /\ logFile = NoFile
    /\ others = "none"

\* nothing constructed, dev_logs not looked at
RecorderIdle ==
    /\ clock = 0
    /\ tools = << >>
    /\ runIds = << >>
    /\ disk = NoFiles
    /\ lastGood = NoFiles
    /\ lastOutcome = NoFiles

\* session_data as built at lines 86-98 ("error" is absent until line 205)
InitialSession(d) ==
    [ session_id      |-> SessionId,
      duration        |-> d,
      screenshots     |-> << >>,
      gif_recording   |-> None,
      emulator_output |-> "",
      emulator_stderr |-> "",
      status          |-> "unknown",
      program_exists  |-> FALSE,
      emulator_pid    |-> None,
      error           |-> None ]

Init ==
    /\ pc = "start"
    /\ duration \in Durations
    /\ session_data = InitialSession(duration)
    /\ idx = 1
    /\ elapsed = 0
    /\ emu = "none"
    /\ emuOut = <<"", "">>
    /\ gifExists = FALSE
    /\ signals = << >>
    /\ calls = [c \in CallNames |-> 0]
    /\ captureLog = << >>
    /\ sessionFile = NoFile
    /\ interrupts = 0
    /\ exc = None
    /\ DiagIdle
    /\ LoopIdle
    /\ RecorderIdle

\* one more invocation of each external operation in S
Called(S) == calls' = [c \in CallNames |-> IF c \in S THEN calls[c] + 1 ELSE calls[c]]

\* OnException storing the message without setting the status
OnException_NoStatus(sd, msg) == [sd EXCEPT !.error = msg]

\* lines 203-205: the handler of the outer try records the failure
OnException(sd, msg) == [sd EXCEPT !.status = "error", !.error = msg]

\* CheckProgram without the return of line 106
CheckProgram_NoReturn ==
    /\ pc = "start"
    /\ \E exists \in BOOLEAN :
         /\ session_data' = [session_data EXCEPT
                !.program_exists = exists,
                !.gif_recording = GifPath,
                !.status = IF exists THEN @ ELSE "program_not_found"]
         /\ pc' = "spawn"
    /\ UNCHANGED <<toolVars, duration, idx, elapsed, emu, emuOut, gifExists, signals, calls,
                   captureLog, sessionFile, interrupts, exc>>

\* lines 100-116: the program artifact check and the recording path
CheckProgram ==
    /\ pc = "start"
    /\ \E exists \in BOOLEAN :
         IF exists
         THEN /\ session_data' = [session_data EXCEPT !.program_exists = TRUE,
                                                      !.gif_recording = GifPath]
              /\ pc' = "spawn"
         ELSE /\ session_data' = [session_data EXCEPT !.program_exists = FALSE,
                                                      !.status = "program_not_found"]
              /\ pc' = "returned"
    /\ UNCHANGED <<toolVars, duration, idx, elapsed, emu, emuOut, gifExists, signals, calls,
                   captureLog, sessionFile, interrupts, exc>>

\* Spawn without the assignment of line 130
Spawn_NoPid ==
    /\ pc = "spawn"
    /\ Called({"spawn"})
    /\ \/ /\ \E o \in Texts, e \in Texts : emuOut' = <<o, e>>
          /\ emu' = "running"
          /\ pc' = "grace"
          /\ UNCHANGED session_data
       \/ /\ session_data' = OnException(session_data, SpawnFailureMsg)
          /\ pc' = "handler_kill"
          /\ UNCHANGED <<emu, emuOut>>
    /\ UNCHANGED <<toolVars, duration, idx, elapsed, gifExists, signals, captureLog,
                   sessionFile, interrupts, exc>>

\* lines 118-131: subprocess.Popen either yields a child or raises
Spawn ==
    /\ pc = "spawn"
    /\ Called({"spawn"})
    /\ \/ /\ \E o \in Texts, e \in Texts : emuOut' = <<o, e>>
          /\ emu' = "running"
          /\ session_data' = [session_data EXCEPT !.emulator_pid = EmuPid]
          /\ pc' = "grace"
       \/ /\ session_data' = OnException(session_data, SpawnFailureMsg)
          /\ pc' = "handler_kill"
          /\ UNCHANGED <<emu, emuOut>>
    /\ UNCHANGED <<toolVars, duration, idx, elapsed, gifExists, signals, captureLog,
                   sessionFile, interrupts, exc>>

\* line 134: time.sleep(5)
GraceSleep ==
    /\ pc = "grace"
    /\ pc' = "probe"
    /\ UNCHANGED <<toolVars, duration, session_data, idx, elapsed, emu, emuOut, gifExists,
                   signals, calls, captureLog, sessionFile, interrupts, exc>>

\* ExitedEarly dropping stderr, as the drain of line 178 does
ExitedEarly_NoStderr(sd, out) ==
    [sd EXCEPT !.emulator_output = out[1],
               !.status = "emulator_exited_early"]

\* lines 139-142: what the early-exit branch stores
ExitedEarly(sd, out) ==
    [sd EXCEPT !.emulator_output = out[1],
               !.emulator_stderr = out[2],
               !.status = "emulator_exited_early"]

\* lines 137-139: poll() has found the child exited and communicate(), which
\* is called without a timeout, reads pipes that a descendant keeps open:
\* the call does not return
EarlyDrainBlocked == pc = "probe" /\ emu = "orphaned"

\* lines 137-148: poll(), and on an exited child communicate() and return;
\* no step is taken from EarlyDrainBlocked
Probe ==
    /\ pc = "probe"
    /\ \/ /\ emu = "exited"
          /\ Called({"probe", "drain"})
          /\ session_data' = ExitedEarly(session_data, emuOut)
          /\ pc' = "returned"
       \/ /\ emu = "running"
          /\ Called({"probe"})
          /\ pc' = "activate"
          /\ UNCHANGED session_data
    /\ UNCHANGED <<toolVars, duration, idx, elapsed, emu, emuOut, gifExists, signals,
                   captureLog, sessionFile, interrupts, exc>>

\* lines 151-155: osascript; the bare except swallows every failure of it,
\* a KeyboardInterrupt included
Activate ==
    /\ pc = "activate"
    /\ Called({"activate"})
    /\ \/ UNCHANGED interrupts
       \/ /\ interrupts < MaxInterrupts
          /\ interrupts' = interrupts + 1
    /\ pc' = "loop"
    /\ idx' = 1
    /\ elapsed' = 0
    /\ UNCHANGED <<toolVars, duration, session_data, emu, emuOut, gifExists, signals,
                   captureLog, sessionFile, exc>>

\* line 162: capture_time - (screenshot_times[i-1] if i > 0 else 0), i = k - 1
SleepInterval(k) ==
    screenshot_times[k] - (IF k > 1 THEN screenshot_times[k - 1] ELSE 0)

\* LoopStep without the filter of line 161
LoopStep_NoFilter ==
    /\ pc = "loop"
    /\ IF idx > Len(screenshot_times)
       THEN pc' = "remain" /\ UNCHANGED idx
       ELSE pc' = "sleep" /\ UNCHANGED idx
    /\ UNCHANGED <<toolVars, duration, session_data, elapsed, emu, emuOut, gifExists,
                   signals, calls, captureLog, sessionFile, interrupts, exc>>

\* lines 160-161: the for loop and its filter; offsets above the duration
\* are skipped, the loop goes on
LoopStep ==
    /\ pc = "loop"
    /\ IF idx > Len(screenshot_times)
       THEN pc' = "remain" /\ UNCHANGED idx
       ELSE IF screenshot_times[idx] <= duration
            THEN pc' = "sleep" /\ UNCHANGED idx
            ELSE pc' = "loop" /\ idx' = idx + 1
    /\ UNCHANGED <<toolVars, duration, session_data, elapsed, emu, emuOut, gifExists,
                   signals, calls, captureLog, sessionFile, interrupts, exc>>

\* line 162: the relative sleep before a capture
SchedSleep ==
    /\ pc = "sleep"
    /\ elapsed' = elapsed + SleepInterval(idx)
    /\ pc' = "capture"
    /\ UNCHANGED <<toolVars, duration, session_data, idx, emu, emuOut, gifExists, signals,
                   calls, captureLog, sessionFile, interrupts, exc>>

\* lines 223-229: the path capture_screenshot builds for label step_<k>
ScreenshotPath(k) == "screenshot_" \o SessionId \o "_step_" \o ToString(k) \o ".png"

\* Record numbering the entries by their place in the list
Record_Sequential(sd, k, file) ==
    IF file # None
    THEN [sd EXCEPT !.screenshots =
             Append(@, [time |-> screenshot_times[k], file |-> file,
                        step |-> Len(@) + 1])]
    ELSE sd

\* Record keeping a failed capture as an entry without a file
Record_EmptyEntry(sd, k, file) ==
    [sd EXCEPT !.screenshots =
        Append(@, [time |-> screenshot_times[k], file |-> file, step |-> k])]

\* Record without the test of line 164
Record_Unconditional(sd, k, file) ==
    [sd EXCEPT !.screenshots =
        Append(@, [time |-> screenshot_times[k], file |-> file, step |-> k])]

\* lines 164-169: a capture is appended only for a returned path
Record(sd, k, file) ==
    IF file # None
    THEN [sd EXCEPT !.screenshots =
             Append(@, [time |-> screenshot_times[k], file |-> file, step |-> k])]
    ELSE sd

\* lines 163-169 with capture_screenshot (221-243): screencapture runs for
\* up to its timeout and yields the path, or fails and yields None
Capture ==
    /\ pc = "capture"
    /\ Called({"capture"})
    /\ \E dt \in 0..MaxCaptureTime : elapsed' = elapsed + dt
    /\ \E file \in {ScreenshotPath(idx), None} :
         /\ session_data' = Record(session_data, idx, file)
         /\ captureLog' = Append(captureLog, [step  |-> idx,
                                              alive |-> emu = "running",
                                              ok    |-> file # None,
                                              file  |-> file])
    /\ idx' = idx + 1
    /\ pc' = "loop"
    /\ UNCHANGED <<toolVars, duration, emu, emuOut, gifExists, signals, sessionFile,
                   interrupts, exc>>

\* max(screenshot_times), line 172
MaxOffset ==
    CHOOSE m \in {screenshot_times[k] : k \in 1..Len(screenshot_times)} :
        \A k \in 1..Len(screenshot_times) : screenshot_times[k] <= m

\* line 172
RemainingTime(d) == d - MaxOffset

\* lines 172-174: the sleep after the schedule
Remain ==
    /\ pc = "remain"
    /\ elapsed' = IF RemainingTime(duration) > 0
                  THEN elapsed + RemainingTime(duration)
                  ELSE elapsed
    /\ pc' = "drain"
    /\ UNCHANGED <<toolVars, duration, session_data, idx, emu, emuOut, gifExists, signals,
                   calls, captureLog, sessionFile, interrupts, exc>>

\* lines 177-181: communicate(timeout=2) yields the output of an exited
\* child, times out on a running one or on pipes kept open, or raises
\* something else, which the handler of line 203 takes
Drain ==
    /\ pc = "drain"
    /\ \/ /\ emu = "exited"
          /\ Called({"drain"})
          /\ session_data' = [session_data EXCEPT !.emulator_output = emuOut[1]]
          /\ pc' = "stop"
       \/ /\ emu \in {"running", "exited"}
          /\ Called({"drain"})
          /\ session_data' = [session_data EXCEPT !.emulator_output = DrainSentinel]
          /\ pc' = "stop"
       \/ /\ Called({"drain", "drain_failed"})
          /\ session_data' = OnException(session_data, DrainFailureMsg)
          /\ pc' = "handler_kill"
    /\ UNCHANGED <<toolVars, duration, idx, elapsed, emu, emuOut, gifExists, signals,
                   captureLog, sessionFile, interrupts, exc>>

\* pkill x16emu (lines 185, 210) when the command runs: SIGTERM reaches a
\* running emulator, which terminates on it or does not
Pkill ==
    IF emu = "running"
    THEN /\ signals' = Append(signals, "TERM")
         /\ emu' \in {"running", "exited"}
    ELSE UNCHANGED <<emu, signals>>

\* lines 184-201: the stop request.  The command returns (its exit code is
\* not looked at), or subprocess.run raises (no pkill binary, the 5 s
\* timeout, a KeyboardInterrupt) and the bare except takes it
Stop ==
    /\ pc = "stop"
    /\ \/ /\ Pkill
          /\ Called({"stop"})
          /\ session_data' = [session_data EXCEPT !.status = "completed"]
          /\ pc' = "gif"
          /\ UNCHANGED interrupts
       \/ /\ \/ Pkill
             \/ UNCHANGED <<emu, signals>>
          /\ Called({"stop", "stop_failed"})
          /\ session_data' = [session_data EXCEPT !.status = "force_killed"]
          /\ pc' = "save"
          /\ \/ UNCHANGED interrupts
             \/ /\ interrupts < MaxInterrupts
                /\ interrupts' = interrupts + 1
    /\ UNCHANGED <<toolVars, duration, idx, elapsed, emuOut, gifExists, captureLog,
                   sessionFile, exc>>

\* lines 188-201: the recording is announced when the file exists.  The
\* check and its prints stand inside the try of line 184, after the status
\* was set at line 187: a KeyboardInterrupt taken there ends in the bare
\* except of line 199, which sets the status again
AnnounceGif ==
    /\ pc = "gif"
    /\ \/ UNCHANGED <<session_data, calls, interrupts>>
       \/ /\ interrupts < MaxInterrupts
          /\ interrupts' = interrupts + 1
          /\ Called({"announce_failed"})
          /\ session_data' = [session_data EXCEPT !.status = "force_killed"]
    /\ pc' = "save"
    /\ UNCHANGED <<toolVars, duration, idx, elapsed, emu, emuOut, gifExists,
                   signals, captureLog, sessionFile, exc>>

\* HandlerKill without the pkill of line 210
HandlerKill_NoPkill ==
    /\ pc = "handler_kill"
    /\ pc' = "save"
    /\ UNCHANGED <<toolVars, duration, session_data, idx, elapsed, emu, emuOut, gifExists,
                   signals, calls, captureLog, sessionFile, interrupts, exc>>

\* lines 208-212: the handler's own pkill; every failure of it is swallowed
HandlerKill ==
    /\ pc = "handler_kill"
    /\ \/ Pkill /\ Called({"stop"}) /\ UNCHANGED interrupts
       \/ /\ Called({"stop", "stop_failed"})
          /\ UNCHANGED <<emu, signals, interrupts>>
       \/ /\ interrupts < MaxInterrupts
          /\ interrupts' = interrupts + 1
          /\ Called({"stop", "stop_failed"})
          /\ UNCHANGED <<emu, signals>>
    /\ pc' = "save"
    /\ UNCHANGED <<toolVars, duration, session_data, idx, elapsed, emuOut, gifExists,
                   captureLog, sessionFile, exc>>

\* lines 214-219: the session file is written and the session returned; a
\* failing open or dump leaves the method with the exception
Save ==
    /\ pc = "save"
    /\ Called({"save"})
    /\ \/ /\ sessionFile' = JsonFile(session_data)
          /\ pc' = "returned"
          /\ UNCHANGED exc
       \/ /\ sessionFile' \in {sessionFile, PartialFile}
          /\ pc' = "raised"
          /\ exc' = "OSError"
    /\ UNCHANGED <<toolVars, duration, session_data, idx, elapsed, emu, emuOut, gifExists,
                   signals, captureLog, interrupts>>

\* the places where a KeyboardInterrupt is taken by no handler: line 203
\* catches Exception only, and so does capture_screenshot (line 241)
Unprotected ==
    {"grace", "sleep", "capture", "drain"}
        \cup (IF RemainingTime(duration) > 0 THEN {"remain"} ELSE {})

\* SIGINT during a blocking call outside the bare excepts: the
\* KeyboardInterrupt leaves run_emulator_with_capture (lines 134, 162, 163,
\* 174, 178) and run_full_diagnostic (line 313)
Interrupt ==
    /\ pc \in Unprotected
    /\ interrupts < MaxInterrupts
    /\ interrupts' = interrupts + 1
    /\ exc' = "KeyboardInterrupt"
    /\ pc' = "raised"
    /\ UNCHANGED <<toolVars, duration, session_data, idx, elapsed, emu, emuOut, gifExists,
                   signals, calls, captureLog, sessionFile>>

\* the emulator terminates by itself (exit, crash, or late reaction to
\* SIGTERM).  Before the probe it does so with or without a descendant that
\* keeps its pipes open; after the probe the pipes are read by the drain of
\* line 178 only, which draws that case itself
EmuExit ==
    /\ emu = "running"
    /\ emu' \in IF pc \in {"grace", "probe"} THEN {"exited", "orphaned"} ELSE {"exited"}
    /\ UNCHANGED <<toolVars, pc, duration, session_data, idx, elapsed, emuOut, gifExists,
                   signals, calls, captureLog, sessionFile, interrupts, exc>>

\* the emulator writes the file given with -gif (line 115)
EmuWritesGif ==
    /\ emu = "running"
    /\ ~gifExists
    /\ gifExists' = TRUE
    /\ UNCHANGED <<toolVars, pc, duration, session_data, idx, elapsed, emu, emuOut,
                   signals, calls, captureLog, sessionFile, interrupts, exc>>

\* --------------------------------------------------- analyze_session
\* the characters of the texts the model uses (Python str as a sequence)
CharsOf(t) ==
    CASE t = "" ->
            << >>
      [] t = "boot ok" ->
            <<"b", "o", "o", "t", " ", "o", "k">>
      [] t = "error: bad opcode" ->
            <<"e", "r", "r", "o", "r", ":", " ", "b", "a", "d", " ", "o",
            "p", "c", "o", "d", "e">>
      [] t = "Emulator still running (timeout)" ->
            <<"E", "m", "u", "l", "a", "t", "o", "r", " ", "s", "t", "i",
            "l", "l", " ", "r", "u", "n", "n", "i", "n", "g", " ", "(", "t",
            "i", "m", "e", "o", "u", "t", ")">>
      [] t = "Fatal ERROR in VERA" ->
            <<"F", "a", "t", "a", "l", " ", "E", "R", "R", "O", "R", " ",
            "i", "n", " ", "V", "E", "R", "A">>

\* str.lower() on one character
Lower(c) ==
    CASE c = "A" -> "a"
      [] c = "B" -> "b"
      [] c = "C" -> "c"
      [] c = "D" -> "d"
      [] c = "E" -> "e"
      [] c = "F" -> "f"
      [] c = "G" -> "g"
      [] c = "H" -> "h"
      [] c = "I" -> "i"
      [] c = "J" -> "j"
      [] c = "K" -> "k"
      [] c = "L" -> "l"
      [] c = "M" -> "m"
      [] c = "N" -> "n"
      [] c = "O" -> "o"
      [] c = "P" -> "p"
      [] c = "Q" -> "q"
      [] c = "R" -> "r"
      [] c = "S" -> "s"
      [] c = "T" -> "t"
      [] c = "U" -> "u"
      [] c = "V" -> "v"
      [] c = "W" -> "w"
      [] c = "X" -> "x"
      [] c = "Y" -> "y"
      [] c = "Z" -> "z"
      [] OTHER -> c

\* emulator_output.lower(), line 270
LowerText(t) == [i \in DOMAIN CharsOf(t) |-> Lower(CharsOf(t)[i])]

\* needle in hay for sequences of characters
IsSubstring(needle, hay) ==
    \E i \in 0..(Len(hay) - Len(needle)) :
        \A j \in 1..Len(needle) : hay[i + j] = needle[j]

\* "error" in emulator_output.lower(), line 270
ReportsError(t) == IsSubstring(<<"e", "r", "r", "o", "r">>, LowerText(t))

\* line 278
SmallSize == 1000
\* line 280
LargeSize == 20000000

\* SizeIssue with the bounds taken inclusive
SizeIssue_Inclusive(shot, f) ==
    IF ~f.exists THEN << >>
    ELSE IF f.size <= SmallSize
         THEN <<"Screenshot " \o ToString(shot.step) \o " is unusually small">>
         ELSE IF f.size >= LargeSize
              THEN <<"Screenshot " \o ToString(shot.step) \o " is unusually large">>
              ELSE << >>

\* SizeIssue without the check of line 280
SizeIssue_NoLarge(shot, f) ==
    IF ~f.exists THEN << >>
    ELSE IF f.size < SmallSize
         THEN <<"Screenshot " \o ToString(shot.step) \o " is unusually small">>
         ELSE << >>

\* lines 275-281: the size check of one screenshot; f is what the file
\* system says about its file
SizeIssue(shot, f) ==
    IF ~f.exists THEN << >>
    ELSE IF f.size < SmallSize
         THEN <<"Screenshot " \o ToString(shot.step) \o " is unusually small">>
         ELSE IF f.size > LargeSize
              THEN <<"Screenshot " \o ToString(shot.step) \o " is unusually large">>
              ELSE << >>

\* lines 274-281: the loop over the screenshots, fs maps a path to its file
RECURSIVE SizeIssues(_, _)
SizeIssues(shots, fs) ==
    IF shots = << >> THEN << >>
    ELSE SizeIssue(Head(shots), fs[Head(shots).file]) \o SizeIssues(Tail(shots), fs)

\* NoShotsIssue reporting nothing
NoShotsIssue_Silent(sd) == << >>

\* lines 259-260
NoShotsIssue(sd) ==
    IF Len(sd.screenshots) = 0 THEN <<"No screenshots captured">> ELSE << >>

\* lines 264-265
StatusIssue(sd) ==
    IF sd.status = "error" THEN <<"Emulator error: " \o sd.error>> ELSE << >>

\* lines 269-271
OutputIssue(sd) ==
    IF ReportsError(sd.emulator_output) THEN <<"Emulator reported errors">> ELSE << >>

\* lines 258-266: recommendations
Recommendations(sd) ==
    (IF Len(sd.screenshots) = 0 THEN <<"Check screencapture permissions">> ELSE << >>)
    \o (IF sd.status = "error"
        THEN <<"Check emulator installation and program file">> ELSE << >>)

\* lines 249-281: the Analysis analyze_session builds from a session and the
\* files its screenshots name
AnalyzeSession(sd, fs) ==
    [ session_id           |-> sd.session_id,
      program_status       |-> "unknown",
      screenshots_captured |-> Len(sd.screenshots),
      issues_detected      |-> NoShotsIssue(sd) \o StatusIssue(sd) \o OutputIssue(sd)
                                   \o SizeIssues(sd.screenshots, fs),
      recommendations      |-> Recommendations(sd) ]

\* ------------------------------------------------------------ the claims
\* the Session run_emulator_with_capture returns is session_data
Returned == pc = "returned"
\* the method has ended, by return or by an exception leaving it
Ended == pc \in {"returned", "raised"}
\* Popen produced a child
Spawned == emu # "none"
SignalSet == {signals[i] : i \in DOMAIN signals}

\* C1: when runSession returns after having spawned the emulator, no
\* emulator process of that run is still running.
C1_NoEmulatorAfterReturn ==
    (Returned /\ Spawned) => emu # "running"

\* C2: every run that spawned the emulator, found it alive at the grace
\* probe and returns has invoked the stop command before returning, also
\* when the drain raised and the handler of line 203 took over.
C2_StopRequestedBeforeReturn ==
    (Returned /\ Spawned /\ calls["activate"] > 0) => calls["stop"] > 0

\* C2 witness: a run returns after the drain raised, with the stop issued.
C2_Witness ==
    /\ Returned
    /\ session_data.error = DrainFailureMsg
    /\ calls["stop"] > 0

\* C3: once an interrupt has arrived after the spawn, the run ends with the
\* emulator stopped and the session accumulated so far persisted.
C3_InterruptCleansUp ==
    (Ended /\ Spawned /\ interrupts > 0)
        => (emu # "running" /\ sessionFile = JsonFile(session_data))

\* C4: after the stop step, status "completed" means the emulator has
\* terminated on the graceful request, and status "force_killed" means a
\* forced kill was sent to it.
C4_StatusTellsHowItStopped ==
    pc \in {"gif", "save", "returned"} =>
        /\ session_data.status = "completed" => emu # "running"
        /\ session_data.status = "force_killed" => "KILL" \in SignalSet

\* C5: with the program artifact absent the run is over right after the
\* check: status program_not_found, no capture in the list, no process id,
\* no spawn and no capture attempted.
C5_ProgramNotFound ==
    (pc # "start" /\ ~session_data.program_exists) =>
        /\ Returned
        /\ session_data.status = "program_not_found"
        /\ session_data.screenshots = << >>
        /\ session_data.emulator_pid = None
        /\ calls["spawn"] = 0
        /\ calls["capture"] = 0

\* C5 witness: the run returned with the program missing.
C5_Witness ==
    Returned /\ ~session_data.program_exists

C7_SpawnError ==
    (calls["spawn"] > 0 /\ ~Spawned) =>
        /\ session_data.status = "error"
        /\ session_data.error = SpawnFailureMsg
        /\ session_data.emulator_pid = None
        /\ session_data.screenshots = << >>
        /\ calls["probe"] = 0
        /\ calls["capture"] = 0
        /\ calls["drain"] = 0

\* C7 witness: the run returned after the spawn call failed.
C7_Witness ==
    Returned /\ calls["spawn"] > 0 /\ ~Spawned

\* C8: whenever runSession returns, the session file holds the returned
\* session.
C8_PersistedBeforeReturn ==
    Returned => sessionFile = JsonFile(session_data)

\* C9: every capture invocation happens while the emulator is running.
C9_CapturesOnlyWhileRunning ==
    \A i \in DOMAIN captureLog : captureLog[i].alive

Shots == session_data.screenshots
\* the offsets of the schedule that line 161 lets through
OffsetsWithin(d) == {k \in 1..Len(screenshot_times) : screenshot_times[k] <= d}

\* C11 as stated: the step indices of a returned capture list are exactly
\* 1..k in increasing order, for some k within the schedule length.
C11_StepsAreOneToK ==
    Returned =>
        /\ Len(Shots) <= Len(screenshot_times)
        /\ \A i \in DOMAIN Shots : Shots[i].step = i

\* C11 (amended): the step indices of a returned capture list are the
\* scheduler positions of the captures that succeeded: strictly increasing
\* values of 1..schedule length, each with the offset of its position, and
\* exactly 1..k when no capture call failed.
C11_StepsAreSchedulerPositions ==
    Returned =>
        /\ \A i \in DOMAIN Shots :
             /\ Shots[i].step \in 1..Len(screenshot_times)
             /\ Shots[i].time = screenshot_times[Shots[i].step]
             /\ captureLog[Shots[i].step].ok
        /\ \A i, j \in DOMAIN Shots : i < j => Shots[i].step < Shots[j].step
        /\ (\A n \in DOMAIN captureLog : captureLog[n].ok)
               => \A i \in DOMAIN Shots : Shots[i].step = i

\* C11 witness: a returned list that starts at step 2 because the first
\* capture failed.
C11_Witness ==
    /\ Returned
    /\ Len(Shots) >= 2
    /\ Shots[1].step = 2

\* C12: at every point the capture list has strictly increasing offsets,
\* each within the duration, and every entry holds the file its capture call
\* returned.
C12_OffsetsIncreaseWithinDuration ==
    /\ \A i \in DOMAIN Shots :
         /\ Shots[i].time <= duration
         /\ Shots[i].step \in DOMAIN captureLog
         /\ Shots[i].file # None
         /\ Shots[i].file = captureLog[Shots[i].step].file
    /\ \A i, j \in DOMAIN Shots : i < j => Shots[i].time < Shots[j].time
    /\ \A n \in DOMAIN captureLog : screenshot_times[captureLog[n].step] <= duration

\* C12 witness: a duration below the largest offset, with the list holding
\* every offset that fits.
C12_Witness ==
    /\ Returned
    /\ duration = 8
    /\ Len(Shots) = 4
    /\ Shots[4].time = 8

\* C13: a capture call that fails adds no entry and leaves the status
\* alone, the loop goes on with the next offset, and the schedule is left
\* only after every offset within the duration has been attempted.
C13_FailedCaptureIsSkipped ==
    [][ /\ (captureLog' # captureLog /\ ~captureLog'[Len(captureLog')].ok) =>
            /\ session_data' = session_data
            /\ pc' = "loop"
            /\ idx' = idx + 1
        /\ (pc = "loop" /\ pc' = "remain") =>
            Len(captureLog) = Cardinality(OffsetsWithin(duration)) ]_vars

\* C13 witness: the run reached the stop request with its first capture
\* failed and a later one taken.
C13_Witness ==
    /\ pc = "stop"
    /\ Len(captureLog) = Len(screenshot_times)
    /\ ~captureLog[1].ok
    /\ captureLog[Len(captureLog)].ok
    /\ session_data.status = "unknown"

\* C14: when the sleep after the schedule is over, at least `duration`
\* seconds have passed since the schedule began, so the stop request does
\* not come earlier than that.
C14_RunsForDuration ==
    pc \in {"drain", "stop"} => elapsed >= duration

\* C15: a finalized session names the recording only if the recording file
\* exists.
C15_RecordingOnlyIfExists ==
    (Returned \/ sessionFile.kind = "json") =>
        (session_data.gif_recording # None => gifExists)

\* the paths of the screenshots of the session
ShotFiles == {Shots[i].file : i \in DOMAIN Shots}
\* files that exist with a size analyze_session takes as normal
NormalFiles == [exists : {TRUE}, size : {SmallSize, LargeSize}]

\* the end-to-end scenario: duration 10, every capture call succeeds with
\* the emulator alive, the drain, the stop command and the recording check
\* do not raise, the emulator is running when asked to stop and stops
EndToEndScenario ==
    /\ Returned
    /\ duration = 10
    /\ Len(captureLog) = Len(screenshot_times)
    /\ \A n \in DOMAIN captureLog : captureLog[n].ok /\ captureLog[n].alive
    /\ calls["drain_failed"] = 0
    /\ calls["stop_failed"] = 0
    /\ calls["announce_failed"] = 0
    /\ signals = <<"TERM">>
    /\ emu = "exited"

\* C16: in the end-to-end scenario the session is completed with the five
\* captures of steps 1..5 at offsets 1, 3, 5, 8, 10, and its analysis has no
\* issue whatever normal sizes the files have.
C16_EndToEnd ==
    EndToEndScenario =>
        /\ session_data.status = "completed"
        /\ [i \in DOMAIN Shots |-> Shots[i].step] = <<1, 2, 3, 4, 5>>
        /\ [i \in DOMAIN Shots |-> Shots[i].time] = <<1, 3, 5, 8, 10>>
        /\ \A fs \in [ShotFiles -> NormalFiles] :
             AnalyzeSession(session_data, fs).issues_detected = << >>

\* C16 witness: the scenario happens.
C16_Witness ==
    EndToEndScenario /\ sessionFile = JsonFile(session_data)

\* C31: no drain of the emulator output waits without bound: the early-exit
\* drain is never blocked, and a session holding the sentinel of the timed
\* out drain has no error status and has gone on to the stop request.
C31_DrainsAreBounded ==
    /\ ~EarlyDrainBlocked
    /\ session_data.emulator_output = DrainSentinel =>
          /\ session_data.status # "error"
          /\ pc \in {"stop", "gif", "save", "returned", "raised"}

\* C32: every call of run_emulator_with_capture comes to its end, whatever
\* the emulator and the commands do.
C32_SessionEnds == <>Ended

\* the larger of two times
LaterOf(a, b) == IF a >= b THEN a ELSE b

\* C33: the sleep before the capture of an offset ends at that offset, or
\* at once when the offset has already passed: its length is the offset
\* minus the time elapsed in the schedule, and never negative.
C33_SleepTargetsOffset ==
    [][ (pc = "sleep" /\ pc' = "capture") =>
            elapsed' = LaterOf(elapsed, screenshot_times[idx]) ]_vars

\* line 91 and lines 104, 143, 187, 200, 204: the values the status takes
\* after "unknown"
TerminalStatuses ==
    {"program_not_found", "error", "emulator_exited_early", "completed", "force_killed"}

\* C34: once the status has a terminal value, no step of the run changes it.
C34_StatusWrittenOnce ==
    [][ session_data.status \in TerminalStatuses =>
            session_data'.status = session_data.status ]_vars

\* C39: a returned session has a terminal status, and holds the process id
\* exactly when Popen produced a child.
C39_TerminalStatusAndPid ==
    Returned =>
        /\ session_data.status \in TerminalStatuses
        /\ (session_data.emulator_pid # None) <=> Spawned
        /\ session_data.emulator_pid \in {None, EmuPid}

\* C39 witness: a run returned with status error and the process id of the
\* emulator that was spawned before the failure.
C39_Witness ==
    /\ Returned
    /\ session_data.status = "error"
    /\ session_data.emulator_pid = EmuPid
    /\ Spawned

\* ------------------------------- build_project and run_full_diagnostic
\* line 301: the default duration of run_full_diagnostic
DefaultDuration == 10
\* line 69
BuildTimeoutMsg == "Build timeout after 30 seconds"
\* what the make invocation of lines 49-55 can do: complete with an exit
\* code, run into the timeout, or fail to start
BuildOutcomes ==
    [kind : {"exit"}, code : {0, 2}, out : {"cc65 pacman.c"},
     err : {"ld65: Warning: segment overlap"}]
        \cup {[kind |-> "timeout"]}
        \cup [kind : {"failed"}, msg : {"[Errno 2] No such file or directory: 'make'"}]

\* dict assignment d[k] = v
Put(d, k, v) == [x \in DOMAIN d \cup {k} |-> IF x = k THEN v ELSE d[x]]

\* BuildLog calling every completed make a success
BuildLog_AnyExit(o) ==
    IF o.kind = "exit"
    THEN Put([InitialBuildLog EXCEPT !.output = o.out, !.errors = o.err,
                                     !.success = TRUE],
             "return_code", o.code)
    ELSE IF o.kind = "timeout"
         THEN [InitialBuildLog EXCEPT !.errors = BuildTimeoutMsg]
         ELSE [InitialBuildLog EXCEPT !.errors = o.msg]

\* lines 40-73: build_log after the try statement, for an outcome of make
BuildLog(o) ==
    IF o.kind = "exit"
    THEN Put([InitialBuildLog EXCEPT !.output = o.out, !.errors = o.err,
                                     !.success = (o.code = 0)],
             "return_code", o.code)
    ELSE IF o.kind = "timeout"
         THEN [InitialBuildLog EXCEPT !.errors = BuildTimeoutMsg]
         ELSE [InitialBuildLog EXCEPT !.errors = o.msg]

\* lines 36-73 of build_project: make is run and build_log filled in
BuildProject ==
    /\ dpc = "build"
    /\ \E o \in BuildOutcomes :
         /\ build_outcome' = o
         /\ build_log' = BuildLog(o)
    /\ dpc' = "build_save"
    /\ UNCHANGED <<buildFile, analysisFile, files, diag_result>>
    /\ UNCHANGED <<sessionVars, interrupts, exc, loopVars, recVars, logVars>>

\* lines 75-80 of build_project: the record is written and success returned;
\* the write is outside the try, a failing open or dump leaves build_project
BuildSave ==
    /\ dpc = "build_save"
    /\ \/ /\ buildFile' = JsonFile(build_log)
          /\ dpc' = "build_returned"
          /\ UNCHANGED exc
       \/ /\ buildFile' \in {buildFile, PartialFile}
          /\ dpc' = "build_raised"
          /\ exc' = "OSError"
    /\ UNCHANGED <<build_outcome, build_log, analysisFile, files, diag_result>>
    /\ UNCHANGED <<sessionVars, interrupts, loopVars, recVars, logVars>>

\* lines 307-313 of run_full_diagnostic: a failed build ends the diagnostic,
\* a successful one calls run_emulator_with_capture
DiagAfterBuild ==
    /\ dpc = "build_returned"
    /\ IF build_log.success
       THEN /\ dpc' = "session"
            /\ pc' = "start"
            /\ UNCHANGED diag_result
       ELSE /\ dpc' = "returned"
            /\ diag_result' = "False"
            /\ UNCHANGED pc
    /\ UNCHANGED <<build_outcome, build_log, buildFile, analysisFile, files>>
    /\ UNCHANGED <<duration, session_data, idx, elapsed, emu, emuOut, gifExists,
                   signals, calls, captureLog, sessionFile>>
    /\ UNCHANGED <<interrupts, exc, loopVars, recVars, logVars>>

\* what the file system can say about a screenshot file at analysis time
FileStates ==
    {[exists |-> FALSE, size |-> 0]}
        \cup [exists : {TRUE}, size : {SmallSize - 1, SmallSize, LargeSize + 1}]

\* lines 316-346 of run_full_diagnostic: the returned session is analysed,
\* the analysis written (lines 283-286) and the summary printed; a failing
\* write leaves run_full_diagnostic
DiagAnalyze ==
    /\ dpc = "session"
    /\ pc = "returned"
    /\ \/ /\ \E f \in FileStates :
               files' = [p \in {session_data.screenshots[i].file :
                                i \in DOMAIN session_data.screenshots} |-> f]
          /\ analysisFile' = JsonFile(AnalyzeSession(session_data, files'))
          /\ dpc' = "returned"
          /\ diag_result' = "True"
          /\ UNCHANGED exc
       \/ /\ analysisFile' \in {analysisFile, PartialFile}
          /\ dpc' = "raised"
          /\ exc' = "OSError"
          /\ UNCHANGED <<files, diag_result>>
    /\ UNCHANGED <<build_outcome, build_log, buildFile>>
    /\ UNCHANGED <<sessionVars, interrupts, loopVars, recVars, logVars>>

\* line 313: an exception that left run_emulator_with_capture leaves
\* run_full_diagnostic, which has no handler
DiagSessionRaised ==
    /\ dpc = "session"
    /\ pc = "raised"
    /\ dpc' = "raised"
    /\ UNCHANGED <<build_outcome, build_log, buildFile, analysisFile, files,
                   diag_result>>
    /\ UNCHANGED <<sessionVars, interrupts, exc, loopVars, recVars, logVars>>

\* SIGINT while make runs: line 71 catches Exception only, the
\* KeyboardInterrupt leaves build_project before the record is written
DiagInterrupt ==
    /\ dpc = "build"
    /\ interrupts < MaxInterrupts
    /\ interrupts' = interrupts + 1
    /\ exc' = "KeyboardInterrupt"
    /\ dpc' = "build_raised"
    /\ UNCHANGED <<build_outcome, build_log, buildFile, analysisFile, files,
                   diag_result>>
    /\ UNCHANGED <<sessionVars, loopVars, recVars, logVars>>

\* a run of run_full_diagnostic with the default duration (main, line 352)
InitDiag ==
    /\ pc = "idle"
    /\ duration = DefaultDuration
    /\ session_data = InitialSession(duration)
    /\ idx = 1
    /\ elapsed = 0
    /\ emu = "none"
    /\ emuOut = <<"", "">>
    /\ gifExists = FALSE
    /\ signals = << >>
    /\ calls = [c \in CallNames |-> 0]
    /\ captureLog = << >>
    /\ sessionFile = NoFile
    /\ interrupts = 0
    /\ exc = None
    /\ dpc = "build"
    /\ build_outcome = NoOutcome
    /\ build_log = InitialBuildLog
    /\ buildFile = NoFile
    /\ analysisFile = NoFile
    /\ files = NoFiles
    /\ diag_result = None
    /\ LoopIdle
    /\ RecorderIdle

\* ------------------------------------------- X16DevLoop (development_loop.py)
\* largest max_iterations given to run_loop
MaxIterations == 2

\* the states a set K of emulators can be in after a SIGTERM to each of
\* them: a running one exits in time or does not
AfterSignal(ps, K) ==
    {q \in [DOMAIN ps -> {"running", "exited"}] :
        \A i \in DOMAIN ps :
            /\ ps[i] = "exited" => q[i] = "exited"
            /\ i \notin K => q[i] = ps[i]}

\* killall x16emu (lines 56, 102) signals every emulator
KillAll(ps) == AfterSignal(ps, DOMAIN ps)

\* killall x16emu selects by name: an emulator the loop did not spawn takes
\* the SIGTERM as well, and exits on it or does not
KillAllOthers(o) ==
    IF o \in {"running", "signalled"} THEN {"signalled", "terminated"} ELSE {o}

\* the log of the basic loop with one more entry appended (line 162)
Appended(f, n) ==
    [kind |-> "text", value |-> Append(IF f = NoFile THEN << >> ELSE f.value, n)]

\* one more completed step
Did(step) == lhist' = Append(lhist, step)

\* line 181: the loop condition; leaving the loop leads to the finally clause
LoopHead ==
    /\ lpc = "head"
    /\ lpc' = IF iteration < max_iterations THEN "build" ELSE "cleanup"
    /\ UNCHANGED <<iteration, max_iterations, emulator_process, procs, lhist, lexc>>
    /\ UNCHANGED <<sessionVars, interrupts, exc, diagVars, recVars, logVars>>

\* LoopBuild going on to the emulator after a failed build
LoopBuild_Continue ==
    /\ lpc = "build"
    /\ \E ok \in BOOLEAN :
         /\ Did(IF ok THEN "build_ok" ELSE "build_fail")
         /\ lpc' = "start"
    /\ UNCHANGED <<iteration, max_iterations, emulator_process, procs, lexc>>
    /\ UNCHANGED <<sessionVars, interrupts, exc, diagVars, recVars, logVars>>

\* build_project (lines 29-49) as called at line 133: a failed build makes
\* run_development_cycle return False and run_loop break (lines 182-184)
LoopBuild ==
    /\ lpc = "build"
    /\ \E ok \in BOOLEAN :
         /\ Did(IF ok THEN "build_ok" ELSE "build_fail")
         /\ lpc' = IF ok THEN "start" ELSE "cleanup"
    /\ UNCHANGED <<iteration, max_iterations, emulator_process, procs, lexc>>
    /\ UNCHANGED <<sessionVars, interrupts, exc, diagVars, recVars, logVars>>

\* start_emulator (lines 51-70) as called at line 137: killall, then Popen
\* yields a child or raises, which ends the cycle and the loop
LoopStart ==
    /\ lpc = "start"
    /\ \E q \in KillAll(procs) :
         \/ /\ procs' = Append(q, "running")
            /\ emulator_process' = Len(q) + 1
            /\ Did("spawn")
            /\ lpc' = "run"
         \/ /\ procs' = q
            /\ Did("spawn_fail")
            /\ lpc' = "cleanup"
            /\ UNCHANGED emulator_process
    /\ UNCHANGED <<iteration, max_iterations, lexc>>
    /\ UNCHANGED <<sessionVars, interrupts, exc, diagVars, recVars>>
    /\ others' \in KillAllOthers(others)
    /\ UNCHANGED <<progress_log, logFile>>

\* lines 142-146: the pause and take_screenshot (lines 72-93), whose
\* listdir and rename can raise; the exception leaves run_loop after cleanup
LoopScreenshot ==
    /\ lpc = "run"
    /\ \/ /\ Did("screenshot")
          /\ lpc' = "stop"
          /\ UNCHANGED lexc
       \/ /\ Did("screenshot_failed")
          /\ lexc' = "OSError"
          /\ lpc' = "cleanup"
    /\ UNCHANGED <<iteration, max_iterations, emulator_process, procs>>
    /\ UNCHANGED <<sessionVars, interrupts, exc, diagVars, recVars, logVars>>

\* stop_emulator, lines 95-105: terminate and a wait of 5 seconds for the
\* child of this loop, then killall; the TimeoutExpired of the wait is
\* caught at line 104, after which killall has not run
StopEmulator ==
    \E q1 \in AfterSignal(procs, {emulator_process}) :
        IF emulator_process # NoProcess /\ q1[emulator_process] = "running"
        THEN procs' = q1 /\ UNCHANGED others
        ELSE procs' \in KillAll(q1) /\ others' \in KillAllOthers(others)

\* line 149: stop_emulator within the cycle
LoopStop ==
    /\ lpc = "stop"
    /\ StopEmulator
    /\ Did("stop")
    /\ lpc' = "log"
    /\ UNCHANGED <<iteration, max_iterations, emulator_process, lexc>>
    /\ UNCHANGED <<sessionVars, interrupts, exc, diagVars, recVars>>
    /\ UNCHANGED <<progress_log, logFile>>

\* LoopLog without the increment of line 156
LoopLog_NoIncrement ==
    /\ lpc = "log"
    /\ \/ /\ Did("log")
          /\ lpc' = "wait"
          /\ logFile' = Appended(logFile, iteration)
          /\ UNCHANGED lexc
       \/ /\ Did("log_failed")
          /\ lexc' = "OSError"
          /\ lpc' = "cleanup"
          /\ UNCHANGED logFile
    /\ UNCHANGED <<iteration, max_iterations, emulator_process, procs>>
    /\ UNCHANGED <<sessionVars, interrupts, exc, diagVars, recVars>>
    /\ UNCHANGED <<progress_log, others>>

\* lines 152-157: analyze_progress, log_iteration (lines 159-167) and the
\* increment; a failing append to the log leaves run_loop after cleanup
LoopLog ==
    /\ lpc = "log"
    /\ \/ /\ Did("log")
          /\ iteration' = iteration + 1
          /\ lpc' = "wait"
          /\ logFile' = Appended(logFile, iteration)
          /\ UNCHANGED lexc
       \/ /\ Did("log_failed")
          /\ lexc' = "OSError"
          /\ lpc' = "cleanup"
          /\ UNCHANGED logFile
          /\ UNCHANGED iteration
    /\ UNCHANGED <<max_iterations, emulator_process, procs>>
    /\ UNCHANGED <<sessionVars, interrupts, exc, diagVars, recVars>>
    /\ UNCHANGED <<progress_log, others>>

\* lines 186-188: the pause between iterations
LoopWait ==
    /\ lpc = "wait"
    /\ lpc' = "head"
    /\ UNCHANGED <<iteration, max_iterations, emulator_process, procs, lhist, lexc>>
    /\ UNCHANGED <<sessionVars, interrupts, exc, diagVars, recVars, logVars>>

\* lines 192-194 and 169-172: the finally clause runs cleanup, then run_loop
\* returns or re-raises
LoopCleanup ==
    /\ lpc = "cleanup"
    /\ StopEmulator
    /\ lpc' = IF lexc = None THEN "returned" ELSE "raised"
    /\ UNCHANGED <<iteration, max_iterations, emulator_process, lhist, lexc>>
    /\ UNCHANGED <<sessionVars, interrupts, exc, diagVars, recVars>>
    /\ UNCHANGED <<progress_log, logFile>>

\* SIGINT: KeyboardInterrupt, caught at line 190, or the SystemExit of
\* signal_handler (lines 196-198), caught nowhere; within the try both lead
\* to the finally clause, within cleanup the exception leaves run_loop
LoopInterrupt ==
    /\ lpc \in {"build", "start", "run", "stop", "log", "wait", "cleanup"}
    /\ interrupts < MaxInterrupts
    /\ interrupts' = interrupts + 1
    /\ \E e \in {"KeyboardInterrupt", "SystemExit"} :
         IF lpc = "cleanup"
         THEN lexc' = e /\ lpc' = "raised"
         ELSE /\ lexc' = IF e = "KeyboardInterrupt" THEN None ELSE e
              /\ lpc' = "cleanup"
    /\ UNCHANGED <<iteration, max_iterations, emulator_process, procs, lhist>>
    /\ UNCHANGED <<sessionVars, exc, diagVars, recVars, logVars>>

\* an emulator of the loop terminates by itself
LoopEmuExit ==
    /\ \E i \in DOMAIN procs :
         /\ procs[i] = "running"
         /\ procs' = [procs EXCEPT ![i] = "exited"]
    /\ UNCHANGED <<lpc, iteration, max_iterations, emulator_process, lhist, lexc>>
    /\ UNCHANGED <<sessionVars, interrupts, exc, diagVars, recVars, logVars>>

\* a run of run_loop(max_iterations) on a new X16DevLoop (lines 24-27)
InitLoop ==
    /\ pc = "idle"
    /\ duration = DefaultDuration
    /\ session_data = InitialSession(duration)
    /\ idx = 1
    /\ elapsed = 0
    /\ emu = "none"
    /\ emuOut = <<"", "">>
    /\ gifExists = FALSE
    /\ signals = << >>
    /\ calls = [c \in CallNames |-> 0]
    /\ captureLog = << >>
    /\ sessionFile = NoFile
    /\ interrupts = 0
    /\ exc = None
    /\ DiagIdle
    /\ lpc = "head"
    /\ iteration = 0
    /\ max_iterations \in 0..MaxIterations
    /\ emulator_process = NoProcess
    /\ procs = << >>
    /\ lhist = << >>
    /\ lexc = None
    /\ progress_log = << >>
    /\ logFile = NoFile
    /\ others \in {"none", "running"}
    /\ RecorderIdle

\* ------------------------------ analyze_session called on any session
\* largest step of a capture in the sessions given to analyze_session
MaxAnalyzedSteps == 2

\* the statuses run_emulator_with_capture assigns (lines 96, 104, 142, 187,
\* 201, 204)
Statuses ==
    {"unknown", "program_not_found", "emulator_exited_early", "error",
     "completed", "force_killed"}

\* texts of the stdout and stderr fields
AnalyzedOutputs ==
    {"", "boot ok", "error: bad opcode", "Fatal ERROR in VERA", DrainSentinel}
AnalyzedStderrs == {"", "error: bad opcode"}

\* sd with the captures of the steps in S appended in schedule order
RECURSIVE WithShots(_, _)
WithShots(sd, S) ==
    IF S = {} THEN sd
    ELSE LET m == CHOOSE k \in S : \A j \in S : j <= k
         IN  Record(WithShots(sd, S \ {m}), m, ScreenshotPath(m))

\* the sessions analyze_session is given
AnalyzedSessions ==
    {[WithShots(InitialSession(DefaultDuration), S) EXCEPT
         !.status = st, !.emulator_output = o, !.emulator_stderr = e,
         !.error = IF st = "error" THEN SpawnFailureMsg ELSE None] :
       S \in SUBSET (1..MaxAnalyzedSteps), st \in Statuses,
       o \in AnalyzedOutputs, e \in AnalyzedStderrs}

\* what the file system can say about each screenshot file
AnalyzedFileStates ==
    FileStates \cup [exists : {TRUE}, size : {500, LargeSize}]

\* the file paths a session names
FilesOf(sd) == {sd.screenshots[i].file : i \in DOMAIN sd.screenshots}

\* analyze_session, lines 245-299, called on its own: the analysis is built
\* from the session and the files, written (lines 283-286) and returned; a
\* failing write leaves analyze_session
AnalyzeCall ==
    /\ dpc = "analyze"
    /\ \/ /\ analysisFile' = JsonFile(AnalyzeSession(session_data, files))
          /\ dpc' = "analyzed"
          /\ UNCHANGED exc
       \/ /\ analysisFile' \in {analysisFile, PartialFile}
          /\ dpc' = "analyze_raised"
          /\ exc' = "OSError"
    /\ UNCHANGED <<build_outcome, build_log, buildFile, files, diag_result>>
    /\ UNCHANGED <<sessionVars, interrupts, loopVars, recVars, logVars>>

\* a call of analyze_session on a session and the files it names
InitAnalyze ==
    /\ pc = "idle"
    /\ duration = DefaultDuration
    /\ session_data \in AnalyzedSessions
    /\ idx = 1
    /\ elapsed = 0
    /\ emu = "none"
    /\ emuOut = <<"", "">>
    /\ gifExists = FALSE
    /\ signals = << >>
    /\ calls = [c \in CallNames |-> 0]
    /\ captureLog = << >>
    /\ sessionFile = NoFile
    /\ interrupts = 0
    /\ exc = None
    /\ dpc = "analyze"
    /\ build_outcome = NoOutcome
    /\ build_log = InitialBuildLog
    /\ buildFile = NoFile
    /\ analysisFile = NoFile
    /\ files \in [FilesOf(session_data) -> AnalyzedFileStates]
    /\ diag_result = None
    /\ LoopIdle
    /\ RecorderIdle

\* ------------------------------------------ the claims on the analysis
\* an analysis has been written
Analyzed == dpc \in {"analyzed", "returned"} /\ analysisFile.kind = "json"
Issues == analysisFile.value.issues_detected
Advice == analysisFile.value.recommendations
\* number of times x occurs in the sequence q
Count(q, x) == Cardinality({i \in DOMAIN q : q[i] = x})
\* some captured text of the session has "error" in it, in any letter case
MentionsError(sd) ==
    ReportsError(sd.emulator_output) \/ ReportsError(sd.emulator_stderr)

\* C23 as stated: zero captures give exactly the "no captures" issue and the
\* permissions hint, whatever the status and the output.
C23_ZeroCapturesOnlyThat ==
    (Analyzed /\ Len(Shots) = 0) =>
        /\ Issues = <<"No screenshots captured">>
        /\ Advice = <<"Check screencapture permissions">>

\* C23 amended: zero captures always give the "no captures" issue and the
\* permissions hint; they are the only issue and the only recommendation
\* when the status is no error or force-kill status and no captured text
\* has "error" in it.
C23_ZeroCaptures ==
    (Analyzed /\ Len(Shots) = 0) =>
        /\ Count(Issues, "No screenshots captured") = 1
        /\ Count(Advice, "Check screencapture permissions") = 1
        /\ (session_data.status \notin {"error", "force_killed"}
              /\ ~MentionsError(session_data)) =>
                 /\ Issues = <<"No screenshots captured">>
                 /\ Advice = <<"Check screencapture permissions">>

\* C23 witness: a completed session without captures has been analysed.
C23_Witness ==
    /\ dpc = "analyzed"
    /\ analysisFile.kind = "json"
    /\ Len(Shots) = 0
    /\ session_data.status = "completed"
    /\ session_data.emulator_output = DrainSentinel
    /\ Issues = <<"No screenshots captured">>

\* the issues with which analyze_session names a status (line 265)
StatusIssueTexts ==
    {"Emulator error: " \o m : m \in {SpawnFailureMsg, DrainFailureMsg, None}}

\* C24: the analysis of a session with status error or force_killed has an
\* issue naming the status, that of a completed session has none.
C24_StatusIssue ==
    Analyzed =>
        /\ session_data.status \in {"error", "force_killed"} =>
              \E i \in DOMAIN Issues : Issues[i] \in StatusIssueTexts
        /\ session_data.status = "completed" =>
              \A i \in DOMAIN Issues : Issues[i] \notin StatusIssueTexts

\* C25: the analysis has the "emulator reported errors" issue exactly when
\* the stdout text or the stderr text of the session has "error" in it.
C25_ErrorsInOutput ==
    Analyzed =>
        (Count(Issues, "Emulator reported errors") = 1 <=> MentionsError(session_data))

SmallMsg(k) == "Screenshot " \o ToString(k) \o " is unusually small"
LargeMsg(k) == "Screenshot " \o ToString(k) \o " is unusually large"

\* C26: for every capture whose file exists the analysis has one "unusually
\* small" issue with its step when the size is below 1000, one "unusually
\* large" issue with its step when the size is above 20000000, and neither
\* from 1000 to 20000000; one capture of 500 bytes at step 1 gives the one
\* size issue "Screenshot 1 is unusually small".
C26_SizeIssues ==
    (dpc = "analyzed" /\ analysisFile.kind = "json") =>
        /\ \A i \in DOMAIN Shots :
             LET f == files[Shots[i].file]
                 k == Shots[i].step
             IN  f.exists =>
                    /\ Count(Issues, SmallMsg(k)) = (IF f.size < 1000 THEN 1 ELSE 0)
                    /\ Count(Issues, LargeMsg(k)) = (IF f.size > 20000000 THEN 1 ELSE 0)
        /\ (Len(Shots) = 1 /\ Shots[1].step = 1
              /\ files[Shots[1].file] = [exists |-> TRUE, size |-> 500]) =>
                 SelectSeq(Issues, LAMBDA x : x \in {SmallMsg(1), LargeMsg(1)})
                     = <<"Screenshot 1 is unusually small">>

\* C26 witness: analysed captures of 500 bytes at step 1 and of more than
\* 20000000 bytes at step 2.
C26_Witness ==
    /\ dpc = "analyzed"
    /\ analysisFile.kind = "json"
    /\ Len(Shots) = 2
    /\ files[Shots[1].file] = [exists |-> TRUE, size |-> 500]
    /\ files[Shots[2].file].size > 20000000
    /\ Count(Issues, "Screenshot 1 is unusually small") = 1
    /\ Count(Issues, "Screenshot 2 is unusually large") = 1

\* C27: the recommendations are the permissions hint when the session has
\* no capture and nothing otherwise.
C27_OnlyPermissionsHint ==
    Analyzed =>
        Advice = IF Len(Shots) = 0 THEN <<"Check screencapture permissions">>
                 ELSE << >>

\* ------------------- several tools and runs writing below one dev_logs
\* the clock runs for MaxClock ticks, TicksPerSecond of them in a second
MaxClock == 2
TicksPerSecond == 2
\* largest number of X16DevTool objects, of runs, of artifacts written
MaxTools == 2
MaxRuns == 2
MaxArtifacts == 2

\* line 26: datetime.now().strftime("%Y%m%d_%H%M%S"), the time to the second
FormatTime(t) == ToString(t \div TicksPerSecond)

\* the session ids there can be
SessionIds == {FormatTime(t) : t \in 0..MaxClock}

\* build_log, session_data and analysis (lines 40, 86, 249)
Kinds == {"build", "session", "analysis"}

\* lines 76, 215, 283: logs_dir / f"{kind}_{self.session_id}.json"
ArtifactName(kind, id) == kind \o "_" \o id \o ".json"

ArtifactNames == {ArtifactName(k, id) : k \in Kinds, id \in SessionIds}

\* the dicts that are dumped
Values == {"v1", "v2"}

\* the artifacts that have been written to
Touched == {n \in DOMAIN lastOutcome : lastOutcome[n] # "none"}

\* time passes
ClockTick ==
    /\ tools # << >>
    /\ clock < MaxClock
    /\ clock' = clock + 1
    /\ UNCHANGED <<tools, runIds, disk, lastGood, lastOutcome>>
    /\ UNCHANGED <<sessionVars, interrupts, exc, diagVars, loopVars, logVars>>

\* X16DevTool.__init__, lines 21-34: the session id is taken from the clock
NewTool ==
    /\ Len(tools) < MaxTools
    /\ tools' = Append(tools, FormatTime(clock))
    /\ UNCHANGED <<clock, runIds, disk, lastGood, lastOutcome>>
    /\ UNCHANGED <<sessionVars, interrupts, exc, diagVars, loopVars, logVars>>

\* lines 82-98: a call of run_emulator_with_capture on the tool t takes the
\* session id of the tool
StartRun ==
    /\ Len(runIds) < MaxRuns
    /\ \E t \in DOMAIN tools : runIds' = Append(runIds, tools[t])
    /\ UNCHANGED <<clock, tools, disk, lastGood, lastOutcome>>
    /\ UNCHANGED <<sessionVars, interrupts, exc, diagVars, loopVars, logVars>>

\* with open(file, 'w') as f: json.dump(value, f, indent=2) for the artifact
\* of kind and id (lines 75-78, 214-217, 283-286): the dump completes, or
\* open fails and the file is as before, or open has truncated the file
\* and the dump fails
RecordWrite(kind, id, v) ==
    LET n == ArtifactName(kind, id)
    IN  /\ n \in Touched \/ Cardinality(Touched) < MaxArtifacts
        /\ \/ /\ disk' = [disk EXCEPT ![n] = JsonFile(v)]
              /\ lastGood' = [lastGood EXCEPT ![n] = v]
              /\ lastOutcome' = [lastOutcome EXCEPT ![n] = "ok"]
           \/ /\ disk' \in {disk, [disk EXCEPT ![n] = PartialFile]}
              /\ lastOutcome' = [lastOutcome EXCEPT ![n] = "failed"]
              /\ UNCHANGED lastGood

\* lines 75-78 of build_project on some tool
WriteBuildLog ==
    /\ \E t \in DOMAIN tools, v \in Values : RecordWrite("build", tools[t], v)
    /\ UNCHANGED <<clock, tools, runIds>>
    /\ UNCHANGED <<sessionVars, interrupts, exc, diagVars, loopVars, logVars>>

\* lines 214-217 of a run of run_emulator_with_capture
WriteSession ==
    /\ \E r \in DOMAIN runIds, v \in Values : RecordWrite("session", runIds[r], v)
    /\ UNCHANGED <<clock, tools, runIds>>
    /\ UNCHANGED <<sessionVars, interrupts, exc, diagVars, loopVars, logVars>>

\* lines 283-286 of analyze_session on some tool
WriteAnalysis ==
    /\ \E t \in DOMAIN tools, v \in Values : RecordWrite("analysis", tools[t], v)
    /\ UNCHANGED <<clock, tools, runIds>>
    /\ UNCHANGED <<sessionVars, interrupts, exc, diagVars, loopVars, logVars>>

\* nothing constructed yet, an empty dev_logs
InitRecorder ==
    /\ pc = "idle"
    /\ duration = DefaultDuration
    /\ session_data = InitialSession(duration)
    /\ idx = 1
    /\ elapsed = 0
    /\ emu = "none"
    /\ emuOut = <<"", "">>
    /\ gifExists = FALSE
    /\ signals = << >>
    /\ calls = [c \in CallNames |-> 0]
    /\ captureLog = << >>
    /\ sessionFile = NoFile
    /\ interrupts = 0
    /\ exc = None
    /\ DiagIdle
    /\ LoopIdle
    /\ clock = 0
    /\ tools = << >>
    /\ runIds = << >>
    /\ disk = [n \in ArtifactNames |-> NoFile]
    /\ lastGood = [n \in ArtifactNames |-> None]
    /\ lastOutcome = [n \in ArtifactNames |-> "none"]

\* ------------------------------------------ the claims on the artifacts
\* C28: no two calls of run_emulator_with_capture use the same session id.
C28_RunsHaveOwnIds ==
    \A i, j \in DOMAIN runIds : i # j => runIds[i] # runIds[j]

\* C29: every artifact that was written holds the value of the latest
\* completed write to its name.
C29_LatestValueOnDisk ==
    \A n \in DOMAIN disk : lastGood[n] # None => disk[n] = JsonFile(lastGood[n])

\* C30: a write that fails leaves a completely written artifact as it was.
C30_FailedWriteKeepsArtifact ==
    [][\A n \in DOMAIN disk :
          (disk[n].kind = "json" /\ n \in DOMAIN lastOutcome'
             /\ lastOutcome'[n] = "failed") => disk'[n] = disk[n]]_vars

\* ------------------------------ EnhancedX16DevLoop (enhanced_dev_loop.py)
\* line 339: source changes are made in the first iterations only
ImplementLimit == 3

\* lines 317-322: the record of a failed build
BuildFailureEntry(n) == [iteration |-> n, step |-> "build"]
\* lines 345-351: the record of a completed cycle
CycleEntry(n) == [iteration |-> n, step |-> "cycle"]

\* line 392: the loop condition; leaving the loop leads to the finally clause
EnhHead ==
    /\ lpc = "e_head"
    /\ lpc' = IF iteration < max_iterations THEN "e_build" ELSE "e_cleanup"
    /\ UNCHANGED <<iteration, max_iterations, emulator_process, procs, lhist, lexc>>
    /\ UNCHANGED <<sessionVars, interrupts, exc, diagVars, recVars, logVars>>

\* build_project (lines 31-51) as called at lines 315-323: a failed build
\* is noted in progress_log, the cycle returns False and run_loop breaks
EnhBuild ==
    /\ lpc = "e_build"
    /\ \E ok \in BOOLEAN :
         /\ Did(IF ok THEN "build_ok" ELSE "build_fail")
         /\ lpc' = IF ok THEN "e_emulator" ELSE "e_cleanup"
         /\ progress_log' = IF ok THEN progress_log
                             ELSE Append(progress_log, BuildFailureEntry(iteration))
    /\ UNCHANGED <<iteration, max_iterations, emulator_process, procs, lexc>>
    /\ UNCHANGED <<sessionVars, interrupts, exc, diagVars, recVars>>
    /\ UNCHANGED <<logFile, others>>

\* start_emulator_with_screenshot (lines 53-74) as called at line 326:
\* killall, then subprocess.run with a timeout of 8 seconds, which has
\* killed the emulator when it returns or raises; any other exception ends
\* the cycle and the loop
EnhEmulator ==
    /\ lpc = "e_emulator"
    /\ \E q \in KillAll(procs) :
         \/ /\ procs' = Append(q, "exited")
            /\ Did("spawn")
            /\ lpc' = "e_screenshot"
         \/ /\ procs' = q
            /\ Did("spawn_fail")
            /\ lpc' = "e_cleanup"
    /\ UNCHANGED <<iteration, max_iterations, emulator_process, lexc>>
    /\ UNCHANGED <<sessionVars, interrupts, exc, diagVars, recVars>>
    /\ others' \in KillAllOthers(others)
    /\ UNCHANGED <<progress_log, logFile>>

\* get_latest_screenshot (lines 76-82) as called at lines 330-333: without a
\* screenshot the cycle returns False
EnhScreenshot ==
    /\ lpc = "e_screenshot"
    /\ \E found \in BOOLEAN :
         /\ Did(IF found THEN "screenshot" ELSE "screenshot_failed")
         /\ lpc' = IF found THEN "e_implement" ELSE "e_cleanup"
    /\ UNCHANGED <<iteration, max_iterations, emulator_process, procs, lexc>>
    /\ UNCHANGED <<sessionVars, interrupts, exc, diagVars, recVars, logVars>>

\* lines 336-342: analyze_screenshot_content, and in the first iterations
\* implement_next_development_step, which changes the source
EnhImplement ==
    /\ lpc = "e_implement"
    /\ IF iteration < ImplementLimit THEN Did("implement") ELSE UNCHANGED lhist
    /\ lpc' = "e_log"
    /\ UNCHANGED <<iteration, max_iterations, emulator_process, procs, lexc>>
    /\ UNCHANGED <<sessionVars, interrupts, exc, diagVars, recVars, logVars>>

\* lines 345-355: the record is appended, log_iteration_enhanced (lines
\* 358-378) rewrites both logs, the counter is incremented; a failing write
\* leaves run_loop after cleanup
EnhLog ==
    /\ lpc = "e_log"
    /\ progress_log' = Append(progress_log, CycleEntry(iteration))
    /\ \/ /\ Did("log")
          /\ logFile' = JsonFile(progress_log')
          /\ iteration' = iteration + 1
          /\ lpc' = "e_wait"
          /\ UNCHANGED lexc
       \/ /\ Did("log_failed")
          /\ logFile' \in {logFile, PartialFile, JsonFile(progress_log')}
          /\ lexc' = "OSError"
          /\ lpc' = "e_cleanup"
          /\ UNCHANGED iteration
    /\ UNCHANGED <<max_iterations, emulator_process, procs>>
    /\ UNCHANGED <<sessionVars, interrupts, exc, diagVars, recVars>>
    /\ UNCHANGED others

\* lines 397-399: the pause between iterations
EnhWait ==
    /\ lpc = "e_wait"
    /\ lpc' = "e_head"
    /\ UNCHANGED <<iteration, max_iterations, emulator_process, procs, lhist, lexc>>
    /\ UNCHANGED <<sessionVars, interrupts, exc, diagVars, recVars, logVars>>

\* lines 406-407 and 380-383: the finally clause runs cleanup, a killall,
\* then run_loop returns or re-raises
EnhCleanup ==
    /\ lpc = "e_cleanup"
    /\ procs' \in KillAll(procs)
    /\ lpc' = IF lexc = None THEN "returned" ELSE "raised"
    /\ UNCHANGED <<iteration, max_iterations, emulator_process, lhist, lexc>>
    /\ UNCHANGED <<sessionVars, interrupts, exc, diagVars, recVars>>
    /\ others' \in KillAllOthers(others)
    /\ UNCHANGED <<progress_log, logFile>>

\* SIGINT: KeyboardInterrupt, caught at line 404, or the SystemExit of
\* signal_handler (lines 409-411); within the try both lead to the finally
\* clause, within cleanup the exception leaves run_loop
EnhInterrupt ==
    /\ lpc \in {"e_build", "e_emulator", "e_screenshot", "e_implement", "e_log",
                "e_wait", "e_cleanup"}
    /\ interrupts < MaxInterrupts
    /\ interrupts' = interrupts + 1
    /\ \E e \in {"KeyboardInterrupt", "SystemExit"} :
         IF lpc = "e_cleanup"
         THEN lexc' = e /\ lpc' = "raised"
         ELSE /\ lexc' = IF e = "KeyboardInterrupt" THEN None ELSE e
              /\ lpc' = "e_cleanup"
    /\ UNCHANGED <<iteration, max_iterations, emulator_process, procs, lhist>>
    /\ UNCHANGED <<sessionVars, exc, diagVars, recVars, logVars>>

\* a run of run_loop(max_iterations) on a new EnhancedX16DevLoop (lines 25-29)
InitEnhanced ==
    /\ pc = "idle"
    /\ duration = DefaultDuration
    /\ session_data = InitialSession(duration)
    /\ idx = 1
    /\ elapsed = 0
    /\ emu = "none"
    /\ emuOut = <<"", "">>
    /\ gifExists = FALSE
    /\ signals = << >>
    /\ calls = [c \in CallNames |-> 0]
    /\ captureLog = << >>
    /\ sessionFile = NoFile
    /\ interrupts = 0
    /\ exc = None
    /\ DiagIdle
    /\ lpc = "e_head"
    /\ iteration = 0
    /\ max_iterations \in 0..MaxIterations
    /\ emulator_process = NoProcess
    /\ procs = << >>
    /\ lhist = << >>
    /\ lexc = None
    /\ progress_log = << >>
    /\ logFile = NoFile
    /\ others \in {"none", "running"}
    /\ RecorderIdle

\* ---------------------------------------------- the claims on the loops
\* run_loop has returned or raised
LoopEnded == lpc \in {"returned", "raised"}

\* the steps that end a cycle without the increment
FailedSteps ==
    {"build_fail", "spawn_fail", "screenshot_failed", "log_failed"}

\* the counter is the number of completed cycles and never above
\* max_iterations, no more than max_iterations cycles are begun, a failed
\* cycle is the last one, and a normal return comes with the counter at
\* max_iterations, a failed cycle or an interrupt
LoopCounts ==
    lpc # "idle" =>
        /\ iteration = Count(lhist, "log")
        /\ iteration <= max_iterations
        /\ Count(lhist, "build_ok") + Count(lhist, "build_fail") <= max_iterations
        /\ \A i \in DOMAIN lhist : lhist[i] \in FailedSteps => i = Len(lhist)
        /\ lpc = "returned" =>
              \/ iteration = max_iterations
              \/ lhist # << >> /\ lhist[Len(lhist)] \in FailedSteps
              \/ interrupts > 0

\* C21: run_loop ends, and at every moment the counter is the number of
\* completed cycles, at most max_iterations cycles have begun, and nothing
\* follows a failed cycle.
C21_LoopBoundedAndEnds == []LoopCounts /\ <>LoopEnded

\* C21 witness: run_loop(2) of X16DevLoop has returned after two cycles.
C21_Witness ==
    /\ lpc = "returned"
    /\ max_iterations = 2
    /\ iteration = 2
    /\ emulator_process = 2
    /\ Count(lhist, "log") = 2

\* C22: no persistence error leaves the driver: neither run_loop after a
\* failed write of the log nor run_full_diagnostic after a failed write of
\* an artifact ends with the OSError.
C22_RunLevelFailuresCaught ==
    /\ ~(lpc = "raised" /\ lexc = "OSError" /\ Count(lhist, "log_failed") = 1)
    /\ ~(dpc \in {"build_raised", "raised"} /\ exc = "OSError")

\* --------------------------------------------- the claims on the tools
\* build_project has returned
BuildReturned == dpc \in {"build_returned", "session", "returned", "raised"}

\* C17: the build record encodes the outcome of make: success exactly for a
\* completed make with exit code 0, the code, stdout and stderr of a
\* completed make; the timeout message and no exit code on a timeout; the
\* error message and no success on a make that could not be run.
C17_BuildRecordEncodesOutcome ==
    dpc \notin {"idle", "build"} /\ build_outcome # NoOutcome =>
        /\ build_log.success <=> (build_outcome.kind = "exit" /\ build_outcome.code = 0)
        /\ build_outcome.kind = "exit" =>
              /\ "return_code" \in DOMAIN build_log
              /\ build_log.return_code = build_outcome.code
              /\ build_log.output = build_outcome.out
              /\ build_log.errors = build_outcome.err
        /\ build_outcome.kind = "timeout" =>
              /\ ~build_log.success
              /\ build_log.errors = BuildTimeoutMsg
              /\ "return_code" \notin DOMAIN build_log
        /\ build_outcome.kind = "failed" =>
              /\ ~build_log.success
              /\ build_log.errors = build_outcome.msg
              /\ "return_code" \notin DOMAIN build_log

\* C17 witness: a timed out make is on record when build_project returns.
C17_Witness ==
    /\ dpc = "returned"
    /\ build_outcome.kind = "timeout"
    /\ buildFile = JsonFile(build_log)
    /\ buildFile.value.errors = BuildTimeoutMsg

\* C18: no outcome of make or of the record write makes build_project
\* raise, and build_project returns with the record written.
C18_BuildNeverRaises ==
    /\ ~(dpc = "build_raised" /\ exc = "OSError")
    /\ BuildReturned => buildFile = JsonFile(build_log)

\* the emulators of the loop that are running
RunningProcs == {i \in DOMAIN procs : procs[i] = "running"}

\* C19: after a failed build nothing else happens in the iteration and no
\* later iteration starts: in run_loop the failed build is the last step on
\* record and the counter does not move; in run_full_diagnostic no emulator
\* is spawned, no session run and no analysis written.
C19_FailedBuildStopsEverything ==
    /\ \A i \in DOMAIN lhist : lhist[i] = "build_fail" => i = Len(lhist)
    /\ (lhist # << >> /\ lhist[Len(lhist)] = "build_fail") =>
          /\ lpc \in {"cleanup", "returned", "raised"}
          /\ iteration = Cardinality({i \in DOMAIN lhist : lhist[i] = "log"})
    /\ (dpc \notin {"idle", "build", "build_save"} /\ ~build_log.success) =>
          /\ pc = "idle"
          /\ calls["spawn"] = 0
          /\ emu = "none"
          /\ sessionFile = NoFile
          /\ analysisFile = NoFile
          /\ dpc \in {"build_returned", "build_raised", "returned"}
          /\ dpc = "returned" => diag_result = "False"

\* C19 witness: the build of the second iteration fails and run_loop returns.
C19_Witness ==
    /\ lpc = "returned"
    /\ iteration = 1
    /\ max_iterations = 2
    /\ lhist[Len(lhist)] = "build_fail"

\* C20: no emulator spawned by the loop is running when run_loop returns.
C20_NoEmulatorAfterLoop ==
    lpc = "returned" => RunningProcs = {}

\* the steps of the loop up to and with step i
StepsUpTo(i) == SubSeq(lhist, 1, i)

\* C35: when the source is changed in an iteration, the emulator run of that
\* iteration is over and the record of that iteration is already in the log.
C35_RecordBeforeMutation ==
    \A i \in DOMAIN lhist :
        lhist[i] = "implement" =>
            /\ Count(StepsUpTo(i), "spawn") = Count(StepsUpTo(i), "implement")
            /\ RunningProcs = {}
            /\ Count(StepsUpTo(i), "log") = Count(StepsUpTo(i), "implement")

\* the loop is between two cycles or behind the last one
BetweenCycles ==
    lpc \in {"e_head", "e_wait", "e_cleanup", "returned", "raised"}

\* C36: between the cycles the log file holds every record kept in memory,
\* the record of a failed build too, unless the write of the log itself
\* failed, and the records are in increasing order of their iteration.
C36_LogHoldsAllRecords ==
    /\ (BetweenCycles /\ progress_log # << >> /\ Count(lhist, "log_failed") = 0)
            => logFile = JsonFile(progress_log)
    /\ \A i, j \in DOMAIN progress_log :
            i < j => progress_log[i].iteration < progress_log[j].iteration

\* C37: an emulator that the loop did not spawn gets no signal from the
\* loop and is not terminated by it.
C37_OnlyOwnEmulatorSignalled ==
    others \notin {"signalled", "terminated"}

\* C38: at most one emulator spawned by the loop is running.
C38_AtMostOneEmulator ==
    Cardinality(RunningProcs) <= 1

Next ==
    \/ CheckProgram
    \/ Spawn
    \/ GraceSleep
    \/ Probe
    \/ Activate
    \/ LoopStep
    \/ SchedSleep
    \/ Capture
    \/ Remain
    \/ Drain
    \/ Stop
    \/ AnnounceGif
    \/ HandlerKill
    \/ Save
    \/ Interrupt
    \/ EmuExit
    \/ EmuWritesGif

Spec == Init /\ [][Next]_vars

\* the steps of run_emulator_with_capture itself
SessionProgress ==
    \/ CheckProgram \/ Spawn \/ GraceSleep \/ Probe \/ Activate \/ LoopStep
    \/ SchedSleep \/ Capture \/ Remain \/ Drain \/ Stop \/ AnnounceGif
    \/ HandlerKill \/ Save

\* a call with a short duration
InitBrief == Init /\ duration <= MaxBriefDuration

\* run_emulator_with_capture as a sequential program that is not suspended:
\* a step of it that can be taken is taken
SpecSession == InitBrief /\ [][Next]_vars /\ WF_vars(SessionProgress)

NextTools ==
    \/ BuildProject
    \/ BuildSave
    \/ DiagAfterBuild
    \/ DiagAnalyze
    \/ DiagSessionRaised
    \/ DiagInterrupt
    \/ LoopHead
    \/ LoopBuild
    \/ LoopStart
    \/ LoopScreenshot
    \/ LoopStop
    \/ LoopLog
    \/ LoopWait
    \/ LoopCleanup
    \/ LoopInterrupt
    \/ LoopEmuExit

\* the steps of run_loop of X16DevLoop, with the interrupts and the emulators
NextLoop ==
    \/ LoopHead
    \/ LoopBuild
    \/ LoopStart
    \/ LoopScreenshot
    \/ LoopStop
    \/ LoopLog
    \/ LoopWait
    \/ LoopCleanup
    \/ LoopInterrupt
    \/ LoopEmuExit

\* the steps of run_loop of EnhancedX16DevLoop, with the interrupts
NextEnhanced ==
    \/ EnhHead
    \/ EnhBuild
    \/ EnhEmulator
    \/ EnhScreenshot
    \/ EnhImplement
    \/ EnhLog
    \/ EnhWait
    \/ EnhCleanup
    \/ EnhInterrupt

\* the steps run_loop itself takes: each is a call that returns
LoopProgress ==
    \/ LoopHead \/ LoopBuild \/ LoopStart \/ LoopScreenshot \/ LoopStop
    \/ LoopLog \/ LoopWait \/ LoopCleanup
    \/ EnhHead \/ EnhBuild \/ EnhEmulator \/ EnhScreenshot \/ EnhImplement
    \/ EnhLog \/ EnhWait \/ EnhCleanup

\* run_loop of either loop; the loop is a sequential program that is not
\* suspended, so a step that can be taken is taken
SpecLoops ==
    /\ InitLoop \/ InitEnhanced
    /\ [][NextLoop \/ NextEnhanced]_vars
    /\ WF_vars(LoopProgress)

NextRecorder ==
    \/ ClockTick
    \/ NewTool
    \/ StartRun
    \/ WriteBuildLog
    \/ WriteSession
    \/ WriteAnalysis

\* X16DevTool objects constructed and used over time
SpecRecorder == InitRecorder /\ [][NextRecorder]_vars

\* analyze_session on its own
SpecAnalyze == InitAnalyze /\ [][AnalyzeCall]_vars

\* run_full_diagnostic, or run_loop of X16DevLoop
SpecTools == (InitDiag \/ InitLoop) /\ [][Next \/ NextTools]_vars
====
